---- MODULE Spec2Model ----
(***************************************************************************)
(* Model of the API MarriageCounselorAgent of src/src/agent.js (lines      *)
(* 1-316): the three persona agents, their tools over the shared story     *)
(* store, the thread key handed to the checkpointer, setMode and invoke.   *)
(*                                                                         *)
(* A JavaScript string is a sequence of tokens; the tokens are chosen so   *)
(* that no token is a prefix of another, hence two token sequences are     *)
(* equal exactly when the strings they spell are equal.  Template literals *)
(* and + are sequence concatenation.                                       *)
(***************************************************************************)
EXTENDS Integers, Sequences, FiniteSets, TLC

\* ------------------------------------------------------------------ bounds
MaxTurns == 2        \* engine turns started in one run
MaxToolCalls == 1    \* tool calls the engine makes in one turn
MaxCallers == 3      \* invoke calls that overlap on one instance
MaxChatTurns == 3    \* engine turns of one interactive run

\* --------------------------------------------------------------- JS values
\* the value `undefined` (a missing property), distinct from every string
Undefined == <<"#undefined">>

\* JavaScript truthiness of a string-or-undefined value
Truthy(x) == x # Undefined /\ x # <<>>

\* a || b
OrElse(a, b) == IF Truthy(a) THEN a ELSE b

\* ------------------------------------------------------------------- MODES
MODES ==
  [ USER    |-> <<"my", "_", "point", "_", "of", "_", "view">>,
    WIFE    |-> <<"her", "_", "point", "_", "of", "_", "view">>,
    SOLOMON |-> <<"king", "_", "solomon", "_", "wise">> ]

ModeKeys == DOMAIN MODES

ModeValues == { MODES[k] : k \in ModeKeys }

\* input.mode / setMode argument as the caller may give it
NoMode == "#undefined"

ModeInputs == { "USER", "wife", "SOLOMON", "unknown" }

\* String.prototype.toUpperCase on the mode names a caller passes
ToUpperCase(s) ==
  CASE s = "user"    -> "USER"
    [] s = "User"    -> "USER"
    [] s = "wife"    -> "WIFE"
    [] s = "solomon" -> "SOLOMON"
    [] s = "unknown" -> "UNKNOWN"
    [] OTHER         -> s

\* MODES[mode.toUpperCase()] is truthy
IsModeName(m) == ToUpperCase(m) \in ModeKeys

\* ------------------------------------------------------------ caller input
UserIds == { Undefined, <<"u1">> }

SessionIds == { Undefined, <<"s1">> }

\* a thread_id the caller may put in config.configurable (DEPLOYMENT.md)
ThreadIds == { Undefined, <<"u1", "_", "s1">> }

\* input.story of the save tools: z.string() accepts every string
Stories == { <<>>, <<"c1">>, <<"c2">> }

\* the merge { ...defaultConfig.configurable, ...config.configurable } for one
\* property: the caller's value when the caller's object has the property
Spread(given, default) == IF given = Undefined THEN default ELSE given

DEFAULT_USER == <<"default", "_", "user">>

DEFAULT_SESSION == <<"default", "_", "session">>

DEFAULT_THREAD_SESSION == <<"default">>

\* --------------------------------------------------------------- the store
STORIES_NS == <<"stories">>

\* what store.get resolves to when the key is absent (null)
NullItem == [found |-> FALSE, value |-> [content |-> Undefined]]

\* a put that keeps what the key held and appends the new content to it
StorePut_Merge(s, ns, key, value) ==
  [ k \in (DOMAIN s) \cup { <<ns, key>> } |->
      IF k = <<ns, key>>
      THEN (IF k \in DOMAIN s
            THEN [content |-> s[k].content \o value.content]
            ELSE value)
      ELSE s[k] ]

StorePut(s, ns, key, value) ==
  [ k \in (DOMAIN s) \cup { <<ns, key>> } |->
      IF k = <<ns, key>> THEN value ELSE s[k] ]

StoreGet(s, ns, key) ==
  IF <<ns, key>> \in DOMAIN s
  THEN [found |-> TRUE, value |-> s[<<ns, key>>]]
  ELSE NullItem

\* `${userId}_user` and `${userId}_wife`
UserKey(userId) == userId \o <<"_", "user">>

WifeKey(userId) == userId \o <<"_", "wife">>

\* ------------------------------------------------------------------- tools
SAVE_USER_STORY == "save_user_story"

SAVE_WIFE_STORY == "save_wife_story"

GET_BOTH_STORIES == "get_both_stories"

createUserModeTools == { SAVE_USER_STORY }

createWifeModeTools == { SAVE_WIFE_STORY }

\* the Arbiter's tool list also holding a save tool
createSolomonModeTools_WithSave == { GET_BOTH_STORIES, SAVE_USER_STORY }

createSolomonModeTools == { GET_BOTH_STORIES }

USER_CONFIRMATION ==
  <<"I understand your perspective. I'll remember this for any future counsel.">>

WIFE_CONFIRMATION == <<"I understand her perspective on this situation.">>

HEADER == <<"BOTH PERSPECTIVES:", "\n\n">>

USER_LABEL == <<"**User's Grievance:** ">>

WIFE_LABEL == <<"**Wife's Perspective:** ">>

NO_STORY == <<"No story shared yet">>

NL2 == <<"\n\n">>

STORE_ERROR == <<"storeError">>

\* config.configurable?.userId || 'default_user' (lines 88, 117, 146)
ToolUserId(configurable) == OrElse(configurable.userId, DEFAULT_USER)

\* The outcome of one tool call: the store after it, whether it returned or
\* threw, the text returned (or the error), the store operations it issued in
\* order, and whether the store rejected one of them.  putFault, getFault1,
\* getFault2 say whether the store rejects the operation.
\* a user-side save that also empties the other side of the user
saveUserStory_ClearsWife(s, story, configurable, putFault) ==
  LET userId == ToolUserId(configurable)
      key    == UserKey(userId)
      ops    == << [op |-> "put", key |-> key] >>
      saved  == StorePut(s, STORIES_NS, key, [content |-> story])
  IN  IF putFault
      THEN [store |-> s, ok |-> FALSE, text |-> STORE_ERROR, ops |-> ops,
            faulted |-> TRUE]
      ELSE [store |-> IF <<STORIES_NS, WifeKey(userId)>> \in DOMAIN s
                      THEN StorePut(saved, STORIES_NS, WifeKey(userId),
                                    [content |-> <<>>])
                      ELSE saved,
            ok |-> TRUE, text |-> USER_CONFIRMATION, ops |-> ops,
            faulted |-> FALSE]

\* a user-side save that confirms although the store rejected its put
saveUserStory_ConfirmsOnFault(s, story, configurable, putFault) ==
  LET userId == ToolUserId(configurable)
      key    == UserKey(userId)
      ops    == << [op |-> "put", key |-> key] >>
  IN  IF putFault
      THEN [store |-> s, ok |-> TRUE, text |-> USER_CONFIRMATION,
            ops |-> ops, faulted |-> TRUE]
      ELSE [store |-> StorePut(s, STORIES_NS, key, [content |-> story]),
            ok |-> TRUE, text |-> USER_CONFIRMATION, ops |-> ops,
            faulted |-> FALSE]

\* a user-side save that files a second record when the key is taken
saveUserStory_Duplicate(s, story, configurable, putFault) ==
  LET userId == ToolUserId(configurable)
      key    == UserKey(userId)
      ops    == << [op |-> "put", key |-> key] >>
      saved  == StorePut(s, STORIES_NS, key, [content |-> story])
  IN  IF putFault
      THEN [store |-> s, ok |-> FALSE, text |-> STORE_ERROR, ops |-> ops,
            faulted |-> TRUE]
      ELSE [store |-> IF <<STORIES_NS, key>> \in DOMAIN s
                      THEN StorePut(saved, STORIES_NS, key \o <<"_", "2">>,
                                    [content |-> story])
                      ELSE saved,
            ok |-> TRUE, text |-> USER_CONFIRMATION, ops |-> ops,
            faulted |-> FALSE]

saveUserStory(s, story, configurable, putFault) ==
  LET userId == ToolUserId(configurable)
      key    == UserKey(userId)
      ops    == << [op |-> "put", key |-> key] >>
  IN  IF putFault
      THEN [store |-> s, ok |-> FALSE, text |-> STORE_ERROR, ops |-> ops,
            faulted |-> TRUE]
      ELSE [store |-> StorePut(s, STORIES_NS, key, [content |-> story]),
            ok |-> TRUE, text |-> USER_CONFIRMATION, ops |-> ops,
            faulted |-> FALSE]

\* a wife-side save that looks the user's story up and answers it
saveWifeStory_ReadsUser(s, story, configurable, putFault) ==
  LET userId == ToolUserId(configurable)
      key    == WifeKey(userId)
      seen   == StoreGet(s, STORIES_NS, UserKey(userId))
      ops    == << [op |-> "get", key |-> UserKey(userId)],
                   [op |-> "put", key |-> key] >>
  IN  IF putFault
      THEN [store |-> s, ok |-> FALSE, text |-> STORE_ERROR, ops |-> ops,
            faulted |-> TRUE]
      ELSE [store |-> StorePut(s, STORIES_NS, key, [content |-> story]),
            ok |-> TRUE,
            text |-> WIFE_CONFIRMATION \o OrElse(seen.value.content, <<>>),
            ops |-> ops, faulted |-> FALSE]

saveWifeStory(s, story, configurable, putFault) ==
  LET userId == ToolUserId(configurable)
      key    == WifeKey(userId)
      ops    == << [op |-> "put", key |-> key] >>
  IN  IF putFault
      THEN [store |-> s, ok |-> FALSE, text |-> STORE_ERROR, ops |-> ops,
            faulted |-> TRUE]
      ELSE [store |-> StorePut(s, STORIES_NS, key, [content |-> story]),
            ok |-> TRUE, text |-> WIFE_CONFIRMATION, ops |-> ops,
            faulted |-> FALSE]

\* userStory?.value?.content ? label + content : label + "No story shared yet"
SideText(label, item) ==
  IF Truthy(item.value.content)
  THEN label \o item.value.content
  ELSE label \o NO_STORY

\* a combined read that dereferences the item without the ?. guards
getBothStories_NoNullCheck(s, configurable, getFault1, getFault2) ==
  LET userId    == ToolUserId(configurable)
      userStory == IF getFault1 THEN NullItem
                   ELSE StoreGet(s, STORIES_NS, UserKey(userId))
      wifeStory == IF getFault2 THEN NullItem
                   ELSE StoreGet(s, STORIES_NS, WifeKey(userId))
      result    == HEADER \o SideText(USER_LABEL, userStory) \o NL2
                          \o SideText(WIFE_LABEL, wifeStory)
      ops       == << [op |-> "get", key |-> UserKey(userId)],
                      [op |-> "get", key |-> WifeKey(userId)] >>
  IN  IF userStory.found /\ wifeStory.found
      THEN [store |-> s, ok |-> TRUE, text |-> result, ops |-> ops,
            faulted |-> getFault1 \/ getFault2]
      ELSE [store |-> s, ok |-> FALSE, text |-> <<"TypeError">>, ops |-> ops,
            faulted |-> getFault1 \/ getFault2]

getBothStories(s, configurable, getFault1, getFault2) ==
  LET userId    == ToolUserId(configurable)
      userStory == IF getFault1 THEN NullItem
                   ELSE StoreGet(s, STORIES_NS, UserKey(userId))
      wifeStory == IF getFault2 THEN NullItem
                   ELSE StoreGet(s, STORIES_NS, WifeKey(userId))
      result    == HEADER \o SideText(USER_LABEL, userStory) \o NL2
                          \o SideText(WIFE_LABEL, wifeStory)
  IN  [store |-> s, ok |-> TRUE, text |-> result,
       ops |-> << [op |-> "get", key |-> UserKey(userId)],
                  [op |-> "get", key |-> WifeKey(userId)] >>,
       faulted |-> getFault1 \/ getFault2]

\* ------------------------------------------------------ prompt function
USER_SYSTEM_MESSAGE    == <<"You are a best friend who listens ...">>
WIFE_SYSTEM_MESSAGE    == <<"You are role-playing as the wife ...">>
SOLOMON_SYSTEM_MESSAGE == <<"You are King Solomon, the wise counselor ...">>
HELPFUL_ASSISTANT      == <<"You are a helpful assistant.">>

\* systemMessages[mode] || "You are a helpful assistant."
SystemMessage(mode) ==
  CASE mode = MODES.USER    -> USER_SYSTEM_MESSAGE
    [] mode = MODES.WIFE    -> WIFE_SYSTEM_MESSAGE
    [] mode = MODES.SOLOMON -> SOLOMON_SYSTEM_MESSAGE
    [] OTHER                -> HELPFUL_ASSISTANT

\* the trailer of the template literal (lines 233-235)
SessionInfo(mode, userId, sessionId) ==
  <<"\n\nSession Info: You are in ">> \o mode \o <<" mode for user ">>
    \o userId \o <<" in session ">> \o sessionId \o <<".">>

\* a prompt function that hands the model the newest message only
getPromptFunction_LastOnly(mode, messages, configurable) ==
  LET userId    == OrElse(configurable.userId, DEFAULT_USER)
      sessionId == OrElse(configurable.sessionId, DEFAULT_SESSION)
      dynamicSystemMsg ==
        SystemMessage(mode) \o SessionInfo(mode, userId, sessionId)
  IN  << [role |-> "system", content |-> dynamicSystemMsg] >>
        \o SubSeq(messages, Len(messages), Len(messages))

\* getPromptFunction(mode)(state, config): the messages handed to the model
getPromptFunction(mode, messages, configurable) ==
  LET userId    == OrElse(configurable.userId, DEFAULT_USER)
      sessionId == OrElse(configurable.sessionId, DEFAULT_SESSION)
      dynamicSystemMsg ==
        SystemMessage(mode) \o SessionInfo(mode, userId, sessionId)
  IN  << [role |-> "system", content |-> dynamicSystemMsg] >> \o messages

\* ------------------------------------------------------------------- state
VARIABLES
  currentMode,   \* this.currentMode: a value of MODES
  initialized,   \* this.initialized
  agents,        \* this.agents: mode value -> the agent built for it
  store,         \* this.store: <<namespace, key>> -> value
  checkpoints,   \* this.checkpointer: thread_id -> the thread's messages
  pc,            \* "idle", or "running" while invoke awaits the engine
  turn,          \* the turn the engine is running
  lastTool,      \* the outcome of the tool call the engine made last
  turns,         \* engine turns started so far
  result,        \* how the last invoke ended: its response or its error
  instruction,   \* the messages the prompt function gave the model
  cli,           \* the interactive instance's fields (unused by the API)
  conc           \* the invoke calls in flight at once on one instance

vars ==
  <<currentMode, initialized, agents, store, checkpoints, pc, turn, lastTool,
    turns, result, instruction, cli, conc>>

NoTurn ==
  [ mode         |-> <<>>,
    configurable |-> [thread_id |-> <<>>, userId |-> <<>>, sessionId |-> <<>>],
    given        |-> [mode |-> NoMode, thread_id |-> Undefined,
                      userId |-> Undefined, sessionId |-> Undefined],
    calls        |-> 0 ]

NoTool ==
  [name |-> "none", ok |-> TRUE, text |-> <<>>, ops |-> <<>>,
   faulted |-> FALSE, input |-> <<>>, prev |-> <<>>]

\* no invoke has ended yet, or one is in flight
NoResult == [status |-> "none", response |-> <<>>, error |-> <<>>]

\* no prompt has been answered and no signal received
NoInput == [prompt |-> "none", answer |-> <<>>]

\* lastInput is the answer read last from a prompt, or the signal received;
\* exitRequested says that exit was chosen or typed or the process was
\* interrupted; chosen is the persona chosen last in the menu, none at first
NoCli ==
  [isRunning |-> FALSE, userId |-> Undefined, sessionId |-> Undefined,
   lastInput |-> NoInput, exitRequested |-> FALSE, chosen |-> <<>>]

\* no invoke calls overlap; built counts the times initialize() has assigned
\* this.agents, puts lists the puts the store accepted, in order, reads the
\* gets of the combined reads, in order, with what each resolved to
NoConc == [calls |-> <<>>, built |-> 0, puts |-> <<>>, reads |-> <<>>]

\* the agents initialize() builds with createReactAgent: each mode's tools
\* and the mode its prompt function was made for
BuildAgents ==
  [ m \in ModeValues |->
      [ tools  |-> CASE m = MODES.USER    -> createUserModeTools
                     [] m = MODES.WIFE    -> createWifeModeTools
                     [] m = MODES.SOLOMON -> createSolomonModeTools,
        prompt |-> m ] ]

Init ==
  /\ currentMode = MODES.SOLOMON
  /\ initialized = FALSE
  /\ agents = <<>>
  /\ store = <<>>
  /\ checkpoints = <<>>
  /\ pc = "idle"
  /\ turn = NoTurn
  /\ lastTool = NoTool
  /\ turns = 0
  /\ result = NoResult
  /\ instruction = <<>>
  /\ cli = NoCli
  /\ conc = NoConc

\* ----------------------------------------------------------------- actions
\* initialize(): returns at once when already initialized
Initialize ==
  /\ agents' = IF initialized THEN agents ELSE BuildAgents
  /\ initialized' = TRUE
  /\ UNCHANGED <<currentMode, store, checkpoints, pc, turn, lastTool, turns,
                 result, instruction, cli>>
  /\ UNCHANGED conc

\* a setMode that knows the upper-case names only
SetModeResult_CaseSensitive(mode) == mode \in ModeKeys

\* setMode(mode): the value it returns
SetModeResult(mode) == IsModeName(mode)

\* setMode(mode): this.currentMode after the call
SetModeNext(cur, mode) ==
  IF SetModeResult(mode) THEN MODES[ToUpperCase(mode)] ELSE cur

\* a setMode that also empties the store
SetMode_ClearsStore(mode) ==
  /\ currentMode' = IF SetModeResult(mode) THEN MODES[ToUpperCase(mode)]
                    ELSE currentMode
  /\ store' = <<>>
  /\ UNCHANGED <<initialized, agents, checkpoints, pc, turn, lastTool,
                 turns, result, instruction, cli>>
  /\ UNCHANGED conc

SetMode(mode) ==
  /\ currentMode' = SetModeNext(currentMode, mode)
  /\ UNCHANGED <<initialized, agents, store, checkpoints, pc, turn, lastTool,
                 turns, result, instruction, cli>>
  /\ UNCHANGED conc

\* defaultConfig.configurable.thread_id (line 248)
DefaultThreadId(mode, sessionId) ==
  mode \o <<"_">> \o OrElse(sessionId, DEFAULT_THREAD_SESSION)

\* mergedConfig.configurable (lines 246-262)
MergedConfigurable(cur, given) ==
  [ thread_id |-> Spread(given.thread_id, DefaultThreadId(cur, given.sessionId)),
    userId    |-> Spread(given.userId, OrElse(given.userId, DEFAULT_USER)),
    sessionId |-> Spread(given.sessionId,
                         OrElse(given.sessionId, DEFAULT_SESSION)) ]

\* a mode selection that knows the upper-case names only
SelectMode_CaseSensitive(cur, inputMode) ==
  IF inputMode \in ModeKeys THEN MODES[inputMode] ELSE cur

\* the mode whose agent runs the turn (lines 264-268)
SelectMode(cur, inputMode) ==
  IF inputMode # NoMode /\ inputMode # "" /\ IsModeName(inputMode)
  THEN MODES[ToUpperCase(inputMode)]
  ELSE cur

AGENT_NOT_INITIALIZED == <<"Agent not initialized for mode: ">>
ENGINE_ERROR          == <<"engine error">>

\* an invoke that wraps the error of the engine's run in one of its own
InvokeResult_Wrapped(outcome) ==
  IF outcome.status = "error"
  THEN [outcome EXCEPT !.error = <<"Invoke failed: ">> \o @]
  ELSE outcome

\* const response = await this.agents[mode].invoke(...); return response
\* (lines 275-280): the caller gets the outcome of the engine's run
InvokeResult(outcome) == outcome

\* the checkpointer appends a message to a thread
AppendMessage(cp, threadId, msg) ==
  [ t \in (DOMAIN cp) \cup {threadId} |->
      IF t = threadId
      THEN (IF t \in DOMAIN cp THEN Append(cp[t], msg) ELSE <<msg>>)
      ELSE cp[t] ]

\* invoke(input, config) up to the await of this.agents[mode].invoke: the
\* engine starts the turn on the thread of mergedConfig and checkpoints the
\* caller's message
Invoke(inputMode, given) ==
  /\ pc = "idle"
  /\ turns < MaxTurns
  /\ initialized' = TRUE
  /\ agents' = IF initialized THEN agents ELSE BuildAgents
  /\ LET configurable == MergedConfigurable(currentMode, given)
         mode         == SelectMode(currentMode, inputMode)
     IN  IF mode \notin DOMAIN agents'
         THEN \* throw new Error(`Agent not initialized for mode: ${mode}`)
              /\ result' = [NoResult EXCEPT !.status = "error",
                                            !.error = AGENT_NOT_INITIALIZED \o mode]
              /\ UNCHANGED <<checkpoints, pc, turn, turns, instruction>>
         ELSE /\ turn' = [ mode         |-> mode,
                           configurable |-> configurable,
                           given        |-> [given EXCEPT !.mode = inputMode],
                           calls        |-> 0 ]
              /\ checkpoints' =
                   AppendMessage(checkpoints, configurable.thread_id,
                     [role |-> "user", by |-> mode,
                      session |-> given.sessionId])
              /\ instruction' =
                   getPromptFunction(agents'[mode].prompt,
                                     checkpoints'[configurable.thread_id],
                                     configurable)
              /\ pc' = "running"
              /\ turns' = turns + 1
              /\ result' = NoResult
  /\ lastTool' = NoTool
  /\ UNCHANGED <<currentMode, store, cli>>
  /\ UNCHANGED conc

\* the engine calls one of the running agent's tools
\* with the input it gives the tool; lastTool also keeps what the store held
\* under the keys of the tool's store operations before the call
CallTool(name, input, out) ==
  /\ pc = "running"
  /\ turn.calls < MaxToolCalls
  /\ name \in agents[turn.mode].tools
  /\ store' = out.store
  /\ lastTool' = [name |-> name, ok |-> out.ok, text |-> out.text,
                  ops |-> out.ops, faulted |-> out.faulted,
                  input |-> input,
                  prev |-> [i \in DOMAIN out.ops |->
                              StoreGet(store, STORIES_NS, out.ops[i].key)]]
  /\ turn' = [turn EXCEPT !.calls = @ + 1]
  /\ UNCHANGED <<currentMode, initialized, agents, checkpoints, pc, turns,
                 result, instruction, cli>>
  /\ UNCHANGED conc

SaveUserStoryCall ==
  \E story \in Stories, putFault \in BOOLEAN :
    CallTool(SAVE_USER_STORY, story,
             saveUserStory(store, story, turn.configurable, putFault))

SaveWifeStoryCall ==
  \E story \in Stories, putFault \in BOOLEAN :
    CallTool(SAVE_WIFE_STORY, story,
             saveWifeStory(store, story, turn.configurable, putFault))

GetBothStoriesCall ==
  \E getFault1 \in BOOLEAN, getFault2 \in BOOLEAN :
    CallTool(GET_BOTH_STORIES, <<>>,
             getBothStories(store, turn.configurable, getFault1, getFault2))

\* the engine ends the turn with its final message; invoke returns the
\* engine's response
EngineReturn ==
  /\ pc = "running"
  /\ checkpoints' =
       AppendMessage(checkpoints, turn.configurable.thread_id,
         [role |-> "ai", by |-> turn.mode,
          session |-> turn.given.sessionId])
  /\ result' = InvokeResult(
                 [NoResult EXCEPT
                    !.status = "ok",
                    !.response = checkpoints'[turn.configurable.thread_id]])
  /\ pc' = "idle"
  /\ turn' = NoTurn
  /\ lastTool' = NoTool
  /\ instruction' = <<>>
  /\ UNCHANGED <<currentMode, initialized, agents, store, turns, cli>>
  /\ UNCHANGED conc

\* the errors the engine's run can be rejected with: its own, or the error
\* of the tool call that failed
EngineErrors ==
  {ENGINE_ERROR} \cup (IF lastTool.ok THEN {} ELSE {lastTool.text})

\* a failing turn that takes back what its tool call wrote
EngineFault_Rollback(error) ==
  /\ pc = "running"
  /\ error \in EngineErrors
  /\ result' = InvokeResult(
                 [NoResult EXCEPT !.status = "error", !.error = error])
  /\ store' = [ k \in { x \in DOMAIN store :
                          \A i \in DOMAIN lastTool.ops :
                            lastTool.ops[i] # [op |-> "put", key |-> x[2]] }
                 |-> store[k] ]
  /\ pc' = "idle"
  /\ turn' = NoTurn
  /\ lastTool' = NoTool
  /\ instruction' = <<>>
  /\ UNCHANGED <<currentMode, initialized, agents, checkpoints, turns, cli>>
  /\ UNCHANGED conc

\* the engine's run is rejected; invoke has no handler around its await
EngineFault(error) ==
  /\ pc = "running"
  /\ error \in EngineErrors
  /\ result' = InvokeResult(
                 [NoResult EXCEPT !.status = "error", !.error = error])
  /\ pc' = "idle"
  /\ turn' = NoTurn
  /\ lastTool' = NoTool
  /\ instruction' = <<>>
  /\ UNCHANGED <<currentMode, initialized, agents, store, checkpoints, turns,
                 cli>>
  /\ UNCHANGED conc

Givens ==
  [ mode : {NoMode}, thread_id : ThreadIds, userId : UserIds,
    sessionId : SessionIds ]

Next ==
  \/ Initialize
  \/ \E mode \in ModeInputs : SetMode(mode)
  \/ \E inputMode \in ModeInputs \cup {NoMode}, given \in Givens :
       Invoke(inputMode, given)
  \/ SaveUserStoryCall
  \/ SaveWifeStoryCall
  \/ GetBothStoriesCall
  \/ EngineReturn
  \/ \E error \in EngineErrors : EngineFault(error)

Spec == Init /\ [][Next]_vars

\* The API called by one user who leaves the thread key to invoke and names
\* a session, names the session "default", or names none.
SessionIdsWide == { Undefined, <<"s1">>, <<"default">> }

GivensSessions ==
  [ mode : {NoMode}, thread_id : {Undefined}, userId : {<<"u1">>},
    sessionId : SessionIdsWide ]

NextSessions ==
  \/ Initialize
  \/ \E mode \in {"USER", "wife"} : SetMode(mode)
  \/ \E inputMode \in {NoMode, "USER"}, given \in GivensSessions :
       Invoke(inputMode, given)
  \/ SaveUserStoryCall
  \/ SaveWifeStoryCall
  \/ GetBothStoriesCall
  \/ EngineReturn
  \/ \E error \in EngineErrors : EngineFault(error)

SpecSessions == Init /\ [][NextSessions]_vars

\* The API called for several users, one of whom is named as the default
\* identity is and two of whom have ids that end as the keys do; the caller
\* leaves the thread key and the session to invoke.
UserIdsWide ==
  { Undefined, DEFAULT_USER, <<"u1">>, <<"u1", "_", "user">>,
    <<"u1", "_", "wife">> }

GivensUsers ==
  [ mode : {NoMode}, thread_id : {Undefined}, userId : UserIdsWide,
    sessionId : {Undefined} ]

\* input.story of the saves the engine makes in a turn: the story the turn's
\* caller told, a different one for each caller
StoryFor(userId) ==
  CASE userId = Undefined                -> <<"c0">>
    [] userId = DEFAULT_USER             -> <<"c1">>
    [] userId = <<"u1">>                 -> <<"c2">>
    [] userId = <<"u1", "_", "user">>    -> <<"c3">>
    [] userId = <<"u1", "_", "wife">>    -> <<"c4">>

UsersSaveUserStoryCall ==
  \E putFault \in BOOLEAN :
    CallTool(SAVE_USER_STORY, StoryFor(turn.given.userId),
             saveUserStory(store, StoryFor(turn.given.userId),
                           turn.configurable, putFault))

UsersSaveWifeStoryCall ==
  \E putFault \in BOOLEAN :
    CallTool(SAVE_WIFE_STORY, StoryFor(turn.given.userId),
             saveWifeStory(store, StoryFor(turn.given.userId),
                           turn.configurable, putFault))

NextUsers ==
  \/ Initialize
  \/ \E inputMode \in {NoMode, "USER", "wife"}, given \in GivensUsers :
       Invoke(inputMode, given)
  \/ UsersSaveUserStoryCall
  \/ UsersSaveWifeStoryCall
  \/ GetBothStoriesCall
  \/ EngineReturn
  \/ \E error \in EngineErrors : EngineFault(error)

SpecUsers == Init /\ [][NextUsers]_vars

\* ------------------------------------------------- overlapping invoke calls
\* Callers of the API that do not wait for one another: each calls invoke
\* once, as the Advocate or the OpposingRolePlay, and the engine calls the
\* persona's save tool at most once.  Every await of the code is a point
\* where another caller's step can come in between.
Callers == 1 .. MaxCallers

\* input.story of the save the engine makes for the caller
StoryOf(p) ==
  CASE p = 2 -> <<"c2">>
    [] p = 3 -> <<>>
    [] OTHER -> <<"c1">>

SessionOf(p) == IF p = 1 THEN <<"s1">> ELSE <<"s2">>

ConcUserIds == { <<"u1">>, <<"u2">> }

NoCall ==
  [ pc |-> "new", mode |-> <<>>,
    configurable |-> [thread_id |-> <<>>, userId |-> <<>>, sessionId |-> <<>>],
    given |-> [mode |-> NoMode, thread_id |-> Undefined,
               userId |-> Undefined, sessionId |-> Undefined] ]

InitConcurrent ==
  /\ currentMode = MODES.SOLOMON
  /\ initialized = FALSE
  /\ agents = <<>>
  /\ store = <<>>
  /\ checkpoints = <<>>
  /\ pc = "idle"
  /\ turn = NoTurn
  /\ lastTool = NoTool
  /\ turns = 0
  /\ result = NoResult
  /\ instruction = <<>>
  /\ cli = NoCli
  /\ conc = [NoConc EXCEPT !.calls = [p \in Callers |-> NoCall]]

\* invoke from the end of its await of initialize() to its await of
\* this.agents[mode].invoke (lines 245-278): the call as it then stands
StartedCall(call, ag) ==
  LET configurable == MergedConfigurable(currentMode, call.given)
      mode         == SelectMode(currentMode, call.given.mode)
  IN  IF mode \notin DOMAIN ag
      THEN [call EXCEPT !.pc = "failed"]
      ELSE [call EXCEPT !.pc = "running", !.mode = mode,
                        !.configurable = configurable]

\* the checkpoints after the engine took the message of a started call
StartedCheckpoints(call) ==
  IF call.pc = "running"
  THEN AppendMessage(checkpoints, call.configurable.thread_id,
         [role |-> "user", by |-> call.mode,
          session |-> call.given.sessionId])
  ELSE checkpoints

\* invoke(input, config) up to the first await that does not resolve at
\* once: initialize() returns at line 31 when this.initialized is set, and
\* awaits initChatModel (line 39) when it is not
InvokeStart(p, inputMode, userId) ==
  /\ conc.calls[p].pc = "new"
  /\ LET call == [conc.calls[p] EXCEPT
                    !.given = [mode |-> inputMode, thread_id |-> Undefined,
                               userId |-> userId,
                               sessionId |-> SessionOf(p)]]
         next == IF initialized THEN StartedCall(call, agents)
                 ELSE [call EXCEPT !.pc = "initializing"]
     IN  /\ conc' = [conc EXCEPT !.calls[p] = next]
         /\ checkpoints' = StartedCheckpoints(next)
  /\ UNCHANGED <<currentMode, initialized, agents, store, pc, turn, lastTool,
                 turns, result, instruction, cli>>

\* initialize() from the end of its await of initChatModel (lines 39-77):
\* it assigns the three agents and sets this.initialized, or throws; invoke
\* goes on to its await of the engine
InitializeDone(p, ok) ==
  /\ conc.calls[p].pc = "initializing"
  /\ IF ok
     THEN /\ agents' = BuildAgents
          /\ initialized' = TRUE
          /\ LET next == StartedCall(conc.calls[p], agents')
             IN  /\ conc' = [conc EXCEPT !.calls[p] = next,
                                         !.built = @ + 1]
                 /\ checkpoints' = StartedCheckpoints(next)
     ELSE /\ conc' = [conc EXCEPT !.calls[p].pc = "failed"]
          /\ UNCHANGED <<agents, initialized, checkpoints>>
  /\ UNCHANGED <<currentMode, store, pc, turn, lastTool, turns, result,
                 instruction, cli>>

\* the engine calls the save tool of the caller's agent; the tool runs up to
\* its await of store.put
ToolStart(p) ==
  /\ conc.calls[p].pc = "running"
  /\ agents[conc.calls[p].mode].tools \cap {SAVE_USER_STORY, SAVE_WIFE_STORY}
       # {}
  /\ conc' = [conc EXCEPT !.calls[p].pc = "putting"]
  /\ UNCHANGED <<currentMode, initialized, agents, store, checkpoints, pc,
                 turn, lastTool, turns, result, instruction, cli>>

\* a save that rewrites the namespace from its own record alone
SaveOutcome_Overwrites(call, p, putFault) ==
  LET out == IF SAVE_USER_STORY \in agents[call.mode].tools
             THEN saveUserStory(<<>>, StoryOf(p), call.configurable, putFault)
             ELSE saveWifeStory(<<>>, StoryOf(p), call.configurable, putFault)
  IN  IF putFault THEN [out EXCEPT !.store = store] ELSE out

\* the outcome of the save tool of the caller's agent
SaveOutcome(call, p, putFault) ==
  IF SAVE_USER_STORY \in agents[call.mode].tools
  THEN saveUserStory(store, StoryOf(p), call.configurable, putFault)
  ELSE saveWifeStory(store, StoryOf(p), call.configurable, putFault)

\* the store settles the put the tool awaits, and the tool returns its
\* confirmation or throws
PutSettled(p, putFault) ==
  /\ conc.calls[p].pc = "putting"
  /\ LET out == SaveOutcome(conc.calls[p], p, putFault)
     IN  /\ store' = out.store
         /\ conc' = [conc EXCEPT
                      !.calls[p].pc = IF out.ok THEN "saved" ELSE "thrown",
                      !.puts = IF out.ok
                               THEN Append(@, [key |-> out.ops[1].key,
                                               content |-> StoryOf(p),
                                               by |-> p])
                               ELSE @]
  /\ UNCHANGED <<currentMode, initialized, agents, checkpoints, pc, turn,
                 lastTool, turns, result, instruction, cli>>

\* the engine ends the caller's turn; invoke returns
CallerReturn(p) ==
  /\ conc.calls[p].pc \in {"running", "saved", "thrown", "read"}
  /\ checkpoints' =
       AppendMessage(checkpoints, conc.calls[p].configurable.thread_id,
         [role |-> "ai", by |-> conc.calls[p].mode,
          session |-> conc.calls[p].given.sessionId])
  /\ conc' = [conc EXCEPT !.calls[p].pc = "returned"]
  /\ UNCHANGED <<currentMode, initialized, agents, store, pc, turn, lastTool,
                 turns, result, instruction, cli>>

\* the engine's run is rejected; invoke rethrows
CallerFault(p) ==
  /\ conc.calls[p].pc \in {"running", "saved", "thrown", "read"}
  /\ conc' = [conc EXCEPT !.calls[p].pc = "failed"]
  /\ UNCHANGED <<currentMode, initialized, agents, store, checkpoints, pc,
                 turn, lastTool, turns, result, instruction, cli>>

NextConcurrent ==
  \/ \E p \in Callers, inputMode \in {"USER", "wife"},
        userId \in ConcUserIds : InvokeStart(p, inputMode, userId)
  \/ \E p \in Callers, ok \in BOOLEAN : InitializeDone(p, ok)
  \/ \E p \in Callers : ToolStart(p)
  \/ \E p \in Callers, putFault \in BOOLEAN : PutSettled(p, putFault)
  \/ \E p \in Callers : CallerReturn(p)
  \/ \E p \in Callers : CallerFault(p)

SpecConcurrent == InitConcurrent /\ [][NextConcurrent]_vars

\* ------------------------------------- a combined read among overlapping saves
\* Callers that do not wait for one another, all for user u1: the turn of
\* caller 1 runs King Solomon's agent, which has get_both_stories called, and
\* the two gets the tool awaits one after the other are points where the
\* puts of the other callers' saves can come in between.

\* the text getBothStories builds from what its two gets resolved to
CombinedText(userStory, wifeStory) ==
  HEADER \o SideText(USER_LABEL, userStory) \o NL2
         \o SideText(WIFE_LABEL, wifeStory)

\* what the caller's first get resolved to
UserStoryOf(p) ==
  conc.reads[CHOOSE i \in DOMAIN conc.reads :
               /\ conc.reads[i].by = p
               /\ conc.reads[i].side = "user"].item

\* the engine calls get_both_stories of the caller's agent; the tool runs up
\* to its await of the first store.get
ReadStart(p) ==
  /\ conc.calls[p].pc = "running"
  /\ GET_BOTH_STORIES \in agents[conc.calls[p].mode].tools
  /\ conc' = [conc EXCEPT !.calls[p].pc = "getting1"]
  /\ UNCHANGED <<currentMode, initialized, agents, store, checkpoints, pc,
                 turn, lastTool, turns, result, instruction, cli>>

\* the store settles the get of `${userId}_user`; a rejected get is caught
\* and leaves null; the tool runs up to its await of the second store.get
GetUserSettled(p, getFault) ==
  /\ conc.calls[p].pc = "getting1"
  /\ LET key  == UserKey(ToolUserId(conc.calls[p].configurable))
         item == IF getFault THEN NullItem
                 ELSE StoreGet(store, STORIES_NS, key)
     IN  conc' = [conc EXCEPT
                    !.calls[p].pc = "getting2",
                    !.reads = Append(@, [by |-> p, side |-> "user",
                                         key |-> key, item |-> item,
                                         faulted |-> getFault,
                                         text |-> <<>>])]
  /\ UNCHANGED <<currentMode, initialized, agents, store, checkpoints, pc,
                 turn, lastTool, turns, result, instruction, cli>>

\* the store settles the get of `${userId}_wife`; the tool builds its text
\* and returns it
GetWifeSettled(p, getFault) ==
  /\ conc.calls[p].pc = "getting2"
  /\ LET key  == WifeKey(ToolUserId(conc.calls[p].configurable))
         item == IF getFault THEN NullItem
                 ELSE StoreGet(store, STORIES_NS, key)
     IN  conc' = [conc EXCEPT
                    !.calls[p].pc = "read",
                    !.reads = Append(@, [by |-> p, side |-> "wife",
                                         key |-> key, item |-> item,
                                         faulted |-> getFault,
                                         text |-> CombinedText(UserStoryOf(p),
                                                               item)])]
  /\ UNCHANGED <<currentMode, initialized, agents, store, checkpoints, pc,
                 turn, lastTool, turns, result, instruction, cli>>

NextReader ==
  \/ InvokeStart(1, "SOLOMON", <<"u1">>)
  \/ \E p \in Callers \ {1}, inputMode \in {"USER", "wife"} :
       InvokeStart(p, inputMode, <<"u1">>)
  \/ \E p \in Callers, ok \in BOOLEAN : InitializeDone(p, ok)
  \/ \E p \in Callers : ToolStart(p)
  \/ \E p \in Callers, putFault \in BOOLEAN : PutSettled(p, putFault)
  \/ \E p \in Callers : ReadStart(p)
  \/ \E p \in Callers, getFault \in BOOLEAN : GetUserSettled(p, getFault)
  \/ \E p \in Callers, getFault \in BOOLEAN : GetWifeSettled(p, getFault)
  \/ \E p \in Callers : CallerReturn(p)
  \/ \E p \in Callers : CallerFault(p)

SpecReader == InitConcurrent /\ [][NextReader]_vars

\* ------------------------------------------------------ interactive loop
\* uuidv4() of the constructor
Uuids == { <<"uuid1">>, <<"uuid2">> }

CLI_USER_ID == <<"user", "_", "1">>

EXIT == <<"exit">>

\* the answers of the list prompt of switchMode
MenuChoices == ModeValues \cup {EXIT}

\* what the user types at the prompt of chat
ChatMessages == { "exit", "EXIT", "menu", "Menu", "", "  ", " menu", "hello" }

ToLowerCase(message) ==
  CASE message = "EXIT" -> "exit"
    [] message = "Menu" -> "menu"
    [] OTHER            -> message

Trim(message) ==
  CASE message = "  "    -> ""
    [] message = " menu" -> "menu"
    [] OTHER             -> message

\* the tools of the interactive variant throw when the config has no userId
USER_ID_REQUIRED == <<"userId is required in the config">>

RequireUserId(configurable, out) ==
  IF ~Truthy(configurable.userId)
  THEN [store |-> out.store, ok |-> FALSE, text |-> USER_ID_REQUIRED,
        ops |-> <<>>, faulted |-> FALSE]
  ELSE out

\* the prompt function of the interactive variant: no default identities
chatPromptFunction(mode, messages, configurable) ==
  << [role |-> "system",
      content |-> SystemMessage(mode)
                    \o SessionInfo(mode, configurable.userId,
                                   configurable.sessionId)] >> \o messages

\* the state after new MarriageCounselorAgent() of the interactive variant
InitChat ==
  /\ currentMode = MODES.USER
  /\ initialized = FALSE
  /\ agents = <<>>
  /\ store = <<>>
  /\ checkpoints = <<>>
  /\ pc = "new"
  /\ turn = NoTurn
  /\ lastTool = NoTool
  /\ turns = 0
  /\ result = NoResult
  /\ instruction = <<>>
  /\ \E uuid \in Uuids :
       cli = [NoCli EXCEPT !.userId = CLI_USER_ID, !.sessionId = uuid]
  /\ conc = NoConc

\* main(): await counselor.initialize(); a failure ends the process
ChatInitialize(ok) ==
  /\ pc = "new"
  /\ IF ok
     THEN /\ agents' = BuildAgents
          /\ initialized' = TRUE
          /\ pc' = "initialized"
     ELSE /\ pc' = "done"
          /\ UNCHANGED <<agents, initialized>>
  /\ UNCHANGED <<currentMode, store, checkpoints, turn, lastTool, turns,
                 result, instruction, cli>>
  /\ UNCHANGED conc

\* start() up to its await of switchMode()
Start ==
  /\ pc = "initialized"
  /\ cli' = [cli EXCEPT !.isRunning = TRUE]
  /\ pc' = "menu"
  /\ UNCHANGED <<currentMode, initialized, agents, store, checkpoints, turn,
                 lastTool, turns, result, instruction>>
  /\ UNCHANGED conc

\* a loop of start() that goes on whatever isRunning says
LoopNext_IgnoresIsRunning(isRunning, mode) ==
  IF mode \in DOMAIN agents THEN "chat" ELSE "spin"

\* while (this.isRunning) { if (this.currentMode) await this.chat(); }: where
\* the loop of start() waits next; chat() returns at once when currentMode
\* has no agent
LoopNext(isRunning, mode) ==
  IF ~isRunning THEN "done"
  ELSE IF mode \in DOMAIN agents THEN "chat"
  ELSE "spin"

\* a switchMode() that reads the choice and leaves currentMode as it was
SwitchMode_KeepsMode(selectedMode) ==
  /\ pc = "menu"
  /\ cli' = [cli EXCEPT
               !.isRunning = IF selectedMode = EXIT THEN FALSE ELSE @,
               !.lastInput = [prompt |-> "menu", answer |-> selectedMode],
               !.exitRequested = @ \/ selectedMode = EXIT,
               !.chosen = IF selectedMode = EXIT THEN @ ELSE selectedMode]
  /\ currentMode' = currentMode
  /\ pc' = LoopNext(cli'.isRunning, currentMode')
  /\ UNCHANGED <<initialized, agents, store, checkpoints, turn, lastTool,
                 turns, result, instruction>>
  /\ UNCHANGED conc

\* switchMode() from the answer of its prompt, and the loop of start() up
\* to the next prompt
SwitchMode(selectedMode) ==
  /\ pc = "menu"
  /\ cli' = [cli EXCEPT
               !.isRunning = IF selectedMode = EXIT THEN FALSE ELSE @,
               !.lastInput = [prompt |-> "menu", answer |-> selectedMode],
               !.exitRequested = @ \/ selectedMode = EXIT,
               !.chosen = IF selectedMode = EXIT THEN @ ELSE selectedMode]
  /\ currentMode' = IF selectedMode = EXIT THEN currentMode ELSE selectedMode
  /\ pc' = LoopNext(cli'.isRunning, currentMode')
  /\ UNCHANGED <<initialized, agents, store, checkpoints, turn, lastTool,
                 turns, result, instruction>>
  /\ UNCHANGED conc

\* a chat() that compares the message as typed, without toLowerCase()
ChatCommand_CaseSensitive(message) ==
  IF message = "exit" THEN "exit"
  ELSE IF message = "menu" THEN "menu"
  ELSE IF Trim(message) = "" THEN "empty"
  ELSE "turn"

\* what chat() does with the message it read
ChatCommand(message) ==
  IF ToLowerCase(message) = "exit" THEN "exit"
  ELSE IF ToLowerCase(message) = "menu" THEN "menu"
  ELSE IF Trim(message) = "" THEN "empty"
  ELSE "turn"

\* a config whose thread key is a new one after the first turn of the run
ChatConfigurable_PerTurn ==
  [ thread_id |-> currentMode \o <<"_">> \o cli.sessionId
                    \o (IF turns > 0 THEN <<"_", "later">> ELSE <<>>),
    userId    |-> cli.userId,
    sessionId |-> cli.sessionId ]

\* the config chat() builds for the engine
ChatConfigurable ==
  [ thread_id |-> currentMode \o <<"_">> \o cli.sessionId,
    userId    |-> cli.userId,
    sessionId |-> cli.sessionId ]

\* a loop that reads the next message without awaiting the engine
Chat_NoAwait(message) ==
  /\ pc \in {"chat", "running"}
  /\ ChatCommand(message) = "turn" => turns < MaxChatTurns
  /\ cli' = [cli EXCEPT
               !.isRunning = IF ChatCommand(message) = "exit" THEN FALSE
                             ELSE @,
               !.lastInput = [prompt |-> "chat", answer |-> <<message>>],
               !.exitRequested = @ \/ ChatCommand(message) = "exit"]
  /\ IF ChatCommand(message) = "turn"
     THEN /\ turn' = [ mode         |-> currentMode,
                       configurable |-> ChatConfigurable,
                       given        |-> [mode      |-> NoMode,
                                         thread_id |-> ChatConfigurable.thread_id,
                                         userId    |-> cli.userId,
                                         sessionId |-> cli.sessionId],
                       calls        |-> 0 ]
          /\ checkpoints' =
               AppendMessage(checkpoints, ChatConfigurable.thread_id,
                 [role |-> "user", by |-> currentMode,
                  session |-> cli.sessionId])
          /\ instruction' =
               chatPromptFunction(agents[currentMode].prompt,
                                  checkpoints'[ChatConfigurable.thread_id],
                                  ChatConfigurable)
          /\ pc' = "running"
          /\ turns' = turns + 1
          /\ result' = NoResult
          /\ lastTool' = NoTool
     ELSE /\ pc' = IF ChatCommand(message) = "menu" THEN "menu"
                   ELSE LoopNext(cli'.isRunning, currentMode)
          /\ UNCHANGED <<turn, checkpoints, instruction, turns, result,
                         lastTool>>
  /\ UNCHANGED <<currentMode, initialized, agents, store>>
  /\ UNCHANGED conc

\* chat() from the answer of its prompt: up to the next prompt, or up to
\* its await of this.agents[this.currentMode].invoke
Chat(message) ==
  /\ pc = "chat"
  /\ ChatCommand(message) = "turn" => turns < MaxChatTurns
  /\ cli' = [cli EXCEPT
               !.isRunning = IF ChatCommand(message) = "exit" THEN FALSE
                             ELSE @,
               !.lastInput = [prompt |-> "chat", answer |-> <<message>>],
               !.exitRequested = @ \/ ChatCommand(message) = "exit"]
  /\ IF ChatCommand(message) = "turn"
     THEN /\ turn' = [ mode         |-> currentMode,
                       configurable |-> ChatConfigurable,
                       given        |-> [mode      |-> NoMode,
                                         thread_id |-> ChatConfigurable.thread_id,
                                         userId    |-> cli.userId,
                                         sessionId |-> cli.sessionId],
                       calls        |-> 0 ]
          /\ checkpoints' =
               AppendMessage(checkpoints, ChatConfigurable.thread_id,
                 [role |-> "user", by |-> currentMode,
                  session |-> cli.sessionId])
          /\ instruction' =
               chatPromptFunction(agents[currentMode].prompt,
                                  checkpoints'[ChatConfigurable.thread_id],
                                  ChatConfigurable)
          /\ pc' = "running"
          /\ turns' = turns + 1
          /\ result' = NoResult
          /\ lastTool' = NoTool
     ELSE /\ pc' = IF ChatCommand(message) = "menu" THEN "menu"
                   ELSE LoopNext(cli'.isRunning, currentMode)
          /\ UNCHANGED <<turn, checkpoints, instruction, turns, result,
                         lastTool>>
  /\ UNCHANGED <<currentMode, initialized, agents, store>>
  /\ UNCHANGED conc

ChatSaveUserStoryCall ==
  \E story \in Stories, putFault \in BOOLEAN :
    CallTool(SAVE_USER_STORY, story,
             RequireUserId(turn.configurable,
               saveUserStory(store, story, turn.configurable, putFault)))

ChatSaveWifeStoryCall ==
  \E story \in Stories, putFault \in BOOLEAN :
    CallTool(SAVE_WIFE_STORY, story,
             RequireUserId(turn.configurable,
               saveWifeStory(store, story, turn.configurable, putFault)))

ChatGetBothStoriesCall ==
  \E getFault1 \in BOOLEAN, getFault2 \in BOOLEAN :
    CallTool(GET_BOTH_STORIES, <<>>,
             RequireUserId(turn.configurable,
               getBothStories(store, turn.configurable, getFault1,
                              getFault2)))

\* the engine ends the turn; chat() prints the last message and returns to
\* the loop
ChatEngineReturn ==
  /\ pc = "running"
  /\ checkpoints' =
       AppendMessage(checkpoints, turn.configurable.thread_id,
         [role |-> "ai", by |-> turn.mode,
          session |-> turn.given.sessionId])
  /\ result' = [NoResult EXCEPT
                  !.status = "ok",
                  !.response = checkpoints'[turn.configurable.thread_id]]
  /\ pc' = LoopNext(cli.isRunning, currentMode)
  /\ turn' = NoTurn
  /\ lastTool' = NoTool
  /\ instruction' = <<>>
  /\ UNCHANGED <<currentMode, initialized, agents, store, turns, cli>>
  /\ UNCHANGED conc

\* a chat() that lets the engine's error end the loop
ChatEngineFault_Exits(error) ==
  /\ pc = "running"
  /\ error \in EngineErrors
  /\ result' = [NoResult EXCEPT !.status = "error", !.error = error]
  /\ pc' = "done"
  /\ turn' = NoTurn
  /\ lastTool' = NoTool
  /\ instruction' = <<>>
  /\ UNCHANGED <<currentMode, initialized, agents, store, checkpoints, turns,
                 cli>>
  /\ UNCHANGED conc

\* the engine's run is rejected; chat() catches the error, prints it and
\* returns to the loop
ChatEngineFault(error) ==
  /\ pc = "running"
  /\ error \in EngineErrors
  /\ result' = [NoResult EXCEPT !.status = "error", !.error = error]
  /\ pc' = LoopNext(cli.isRunning, currentMode)
  /\ turn' = NoTurn
  /\ lastTool' = NoTool
  /\ instruction' = <<>>
  /\ UNCHANGED <<currentMode, initialized, agents, store, checkpoints, turns,
                 cli>>
  /\ UNCHANGED conc

\* a SIGINT handler that prints and lets the process run on
Interrupt_Ignored ==
  /\ pc # "done"
  /\ cli' = [cli EXCEPT
               !.lastInput = [prompt |-> "signal", answer |-> <<"SIGINT">>],
               !.exitRequested = TRUE]
  /\ UNCHANGED <<currentMode, initialized, agents, store, checkpoints, pc,
                 turn, lastTool, turns, result, instruction>>
  /\ UNCHANGED conc

\* process.on('SIGINT', ...): process.exit(0), whatever the process awaits
Interrupt ==
  /\ pc # "done"
  /\ cli' = [cli EXCEPT
               !.lastInput = [prompt |-> "signal", answer |-> <<"SIGINT">>],
               !.exitRequested = TRUE]
  /\ pc' = "done"
  /\ UNCHANGED <<currentMode, initialized, agents, store, checkpoints, turn,
                 lastTool, turns, result, instruction>>
  /\ UNCHANGED conc

NextChat ==
  \/ \E ok \in BOOLEAN : ChatInitialize(ok)
  \/ Start
  \/ \E selectedMode \in MenuChoices : SwitchMode(selectedMode)
  \/ \E message \in ChatMessages : Chat(message)
  \/ ChatSaveUserStoryCall
  \/ ChatSaveWifeStoryCall
  \/ ChatGetBothStoriesCall
  \/ ChatEngineReturn
  \/ \E error \in EngineErrors : ChatEngineFault(error)
  \/ Interrupt

SpecChat == InitChat /\ [][NextChat]_vars

\* ------------------------------------------------------------------ claims
\* every checkpointed message together with the thread key its turn was given
Messages ==
  UNION { { [thread |-> t, msg |-> checkpoints[t][i]] :
              i \in DOMAIN checkpoints[t] } : t \in DOMAIN checkpoints }

\* the messages of the turns whose caller named a session and left the thread
\* key to invoke
SessionMessages ==
  { m \in Messages : m.msg.session # Undefined /\ m.thread \notin ThreadIds }

\* C1: two turns of the same session run by different personas' agents are
\* never given the same thread key.
C1_PersonasNeverShareThread ==
  \A a \in SessionMessages, b \in SessionMessages :
    (a.msg.session = b.msg.session /\ a.msg.by # b.msg.by)
      => a.thread # b.thread

\* C2: every turn run by persona p for session s is given the same thread
\* key, whatever the current mode and the earlier calls are.
C2_ThreadKeyOfPersonaAndSession ==
  \A a \in SessionMessages, b \in SessionMessages :
    (a.msg.by = b.msg.by /\ a.msg.session = b.msg.session)
      => a.thread = b.thread

\* C3: the history stored under a turn's thread key holds only messages of
\* earlier turns of that same persona and session: a turn appends to, and
\* loads, no thread that holds a message of another persona or session.
C3_ThreadPrivateToPersonaSession ==
  \A t \in (DOMAIN checkpoints) \ ThreadIds :
    \A i \in DOMAIN checkpoints[t], j \in DOMAIN checkpoints[t] :
      LET a == checkpoints[t][i]
          b == checkpoints[t][j]
      IN  (a.session # Undefined /\ b.session # Undefined /\ i <= j) =>
            /\ a.by = b.by
            /\ a.session = b.session

\* the key ends with the suffix
HasSuffix(key, suffix) ==
  /\ Len(key) >= Len(suffix)
  /\ SubSeq(key, Len(key) - Len(suffix) + 1, Len(key)) = suffix

\* the persona the spec authorizes to write a key, by the key's suffix
KeyWriter(key) ==
  IF HasSuffix(key, <<"_", "user">>) THEN MODES.USER
  ELSE IF HasSuffix(key, <<"_", "wife">>) THEN MODES.WIFE
  ELSE <<>>

\* the keys the last tool call touched with the given store operation
OpKeys(op) ==
  { lastTool.ops[i].key : i \in { n \in DOMAIN lastTool.ops :
                                    lastTool.ops[n].op = op } }

InStore(key) == <<STORIES_NS, key>> \in DOMAIN store

Shown(key) ==
  IF InStore(key) THEN store[<<STORIES_NS, key>>].content ELSE NO_STORY

\* C6: after the Advocate's save recorded cu for u, the combined read for u
\* returns cu verbatim under the user side and the marker under the opposing
\* side; after the OpposingRolePlay's save recorded cw, it returns cu and cw
\* verbatim, user side first.  (Stated for the turns that name their user
\* and for the reads the store answered.)
C6_ReadReturnsSavedStories ==
  (lastTool.name = GET_BOTH_STORIES
     /\ turn.given.userId # Undefined
     /\ ~lastTool.faulted
     /\ InStore(UserKey(ToolUserId(turn.configurable)))) =>
    /\ lastTool.ok
    /\ lastTool.text =
         HEADER \o USER_LABEL
                \o Shown(UserKey(ToolUserId(turn.configurable))) \o NL2
                \o WIFE_LABEL
                \o Shown(WifeKey(ToolUserId(turn.configurable)))

\* C7: the combined read for a user for whom neither side has been written
\* returns normally, with the marker for both sides.
C7_ReadBeforeAnyWrite ==
  (lastTool.name = GET_BOTH_STORIES
     /\ \A k \in OpKeys("get") : ~InStore(k)) =>
    /\ lastTool.ok
    /\ lastTool.text =
         HEADER \o USER_LABEL \o NO_STORY \o NL2 \o WIFE_LABEL \o NO_STORY

\* C7 witness: the combined read ran for u1 while the store held records of
\* another user only.
C7_Witness ==
  /\ lastTool.name = GET_BOTH_STORIES
  /\ lastTool.ok
  /\ OpKeys("get") = { UserKey(<<"u1">>), WifeKey(<<"u1">>) }
  /\ ~InStore(UserKey(<<"u1">>))
  /\ ~InStore(WifeKey(<<"u1">>))
  /\ InStore(UserKey(DEFAULT_USER))

\* C8: invoke with a persona identifier that names none of the three
\* personas fails: the engine is run for no persona.
C8_UnknownPersonaRejected ==
  pc = "running" => (turn.given.mode = NoMode \/ IsModeName(turn.given.mode))

\* C9: invoke without a sessionId fails before the engine is run, and no
\* thread key is derived from a default.
C9_MissingSessionRejected ==
  pc = "running" =>
    /\ turn.given.sessionId # Undefined
    /\ ~HasSuffix(turn.configurable.thread_id,
                  <<"_">> \o DEFAULT_THREAD_SESSION)

\* C10: a tool call of a turn that has no userId fails before any store put
\* or get is issued; no key is built from a default user identity.
C10_MissingUserRejected ==
  (lastTool.name # "none" /\ turn.given.userId = Undefined) =>
    /\ ~lastTool.ok
    /\ lastTool.ops = <<>>

\* C11: when the store faults during a put or a get, the tool call ends in an
\* error: no tool call returns normally after the store rejected one of its
\* operations.  (Stated for the turns that name their user and session.)
C11_StoreFaultSurfaced ==
  ( /\ lastTool.faulted
    /\ turn.given.userId # Undefined
    /\ turn.given.sessionId # Undefined ) => ~lastTool.ok

\* the tool call of the step wrote the key: the store accepted its put
PutBy(tool, k) ==
  /\ tool.ok
  /\ k[1] = STORIES_NS
  /\ \E i \in DOMAIN tool.ops : tool.ops[i] = [op |-> "put", key |-> k[2]]

C13_LastWriteWins ==
  [][ \A k \in DOMAIN store' :
        IF turn'.calls = turn.calls + 1 /\ PutBy(lastTool', k)
        THEN store'[k] = [content |-> lastTool'.input]
        ELSE k \in DOMAIN store /\ store'[k] = store[k] ]_vars

\* C13 witness: a user-side save of c2 replaced the c1 the key held.
C13_Witness ==
  /\ lastTool.name = SAVE_USER_STORY
  /\ lastTool.ok
  /\ lastTool.input = <<"c2">>
  /\ lastTool.prev[1].found
  /\ lastTool.prev[1].value.content = <<"c1">>
  /\ store[<<STORIES_NS, lastTool.ops[1].key>>] = [content |-> <<"c2">>]

\* C14: saving the content a key already holds leaves the store as it was,
\* and with it the result of every combined read.
C14_SameSaveIdempotent ==
  [][ ( /\ turn'.calls = turn.calls + 1
        /\ lastTool'.name \in {SAVE_USER_STORY, SAVE_WIFE_STORY}
        /\ lastTool'.ok
        /\ lastTool'.prev[1].found
        /\ lastTool'.prev[1].value.content = lastTool'.input ) =>
        /\ store' = store
        /\ \A u \in UserIds :
             getBothStories(store', [userId |-> u], FALSE, FALSE).text =
               getBothStories(store, [userId |-> u], FALSE, FALSE).text ]_vars

\* C14 witness: the user side of u1 held c1 and a save of c1 was accepted.
C14_Witness ==
  /\ lastTool.name = SAVE_USER_STORY
  /\ lastTool.ok
  /\ lastTool.input = <<"c1">>
  /\ lastTool.prev[1].found
  /\ lastTool.prev[1].value.content = <<"c1">>
  /\ lastTool.ops[1].key = UserKey(<<"u1">>)
  /\ store[<<STORIES_NS, UserKey(<<"u1">>)>>] = [content |-> <<"c1">>]

\* C15: for a fixed persona, turns whose sessionIds differ are given
\* different thread keys: no thread holds messages of one persona from two
\* sessions.  (Here no caller supplies a thread key of its own.)
C15_SessionsHaveOwnThreads ==
  \A t \in DOMAIN checkpoints :
    \A i, j \in DOMAIN checkpoints[t] :
      checkpoints[t][i].by = checkpoints[t][j].by =>
        OrElse(checkpoints[t][i].session, DEFAULT_SESSION) =
          OrElse(checkpoints[t][j].session, DEFAULT_SESSION)

\* the state of the interactive machine the process is in
UiState(p) ==
  CASE p = "menu"               -> "Selecting"
    [] p \in {"chat", "running"} -> "Chatting"
    [] p = "done"               -> "Exited"
    [] OTHER                    -> "Starting"

\* the input of the step asked to leave: exit chosen in the menu, exit typed
\* while chatting, or an interrupt
ExitInput(in) ==
  \/ in.prompt = "signal"
  \/ in.prompt = "menu" /\ in.answer = EXIT
  \/ in.prompt = "chat" /\ in.answer \in { <<"exit">>, <<"EXIT">> }

\* C16: in the interactive loop the machine changes state only from
\* Selecting to Chatting(p) when p is chosen in the menu, from Chatting(p) to
\* Selecting on the menu command, and from Selecting or Chatting(p) to Exited
\* on exit or an interrupt; the persona changes only in a step from
\* Selecting.
C16_InteractiveTransitions ==
  [][ LET a  == UiState(pc)
          b  == UiState(pc')
          in == cli'.lastInput
      IN  /\ (a # "Starting" /\ a # b) =>
               \/ /\ a = "Selecting"
                  /\ b = "Chatting"
                  /\ in.prompt = "menu"
                  /\ in.answer \in ModeValues
                  /\ currentMode' = in.answer
               \/ /\ a = "Chatting"
                  /\ b = "Selecting"
                  /\ in.prompt = "chat"
                  /\ in.answer \in { <<"menu">>, <<"Menu">> }
                  /\ currentMode' = currentMode
               \/ /\ a \in {"Selecting", "Chatting"}
                  /\ b = "Exited"
                  /\ ExitInput(in)
          /\ currentMode' # currentMode => a = "Selecting" ]_vars

\* C16 witness: the user chatted as the Advocate, went back to the menu and
\* is now chatting as the OpposingRolePlay.
C16_Witness ==
  /\ pc = "chat"
  /\ currentMode = MODES.WIFE
  /\ cli.lastInput = [prompt |-> "menu", answer |-> MODES.WIFE]
  /\ (MODES.USER \o <<"_">> \o cli.sessionId) \in DOMAIN checkpoints

\* C17: once exit was chosen in the menu or typed while chatting, or the
\* process was interrupted, the machine is in Exited and stays there: no
\* prompt is read, no turn is started, the persona is not changed and the
\* store is not written.
C17_ExitedIsTerminal ==
  [][ /\ cli'.exitRequested => pc' = "done"
      /\ cli.exitRequested =>
           /\ pc' = pc
           /\ cli' = cli
           /\ currentMode' = currentMode
           /\ store' = store
           /\ turns' = turns
           /\ checkpoints' = checkpoints ]_vars

\* C17 witness: exit was typed while chatting after a turn had written the
\* store.
C17_Witness ==
  /\ pc = "done"
  /\ cli.exitRequested
  /\ cli.lastInput = [prompt |-> "chat", answer |-> <<"exit">>]
  /\ turns >= 1
  /\ DOMAIN store # {}

\* the last put the store accepted for the key
LastPut(key) ==
  conc.puts[CHOOSE i \in DOMAIN conc.puts :
              /\ conc.puts[i].key = key
              /\ \A j \in DOMAIN conc.puts : conc.puts[j].key = key => j <= i]

\* C21: under every interleaving of overlapping save-tool calls each accepted
\* write takes effect and none is lost or altered by a call on another key:
\* each key written holds the content of the last save accepted for it, the
\* store holds no other key, and a call that awaits its put can always go on,
\* whatever the other calls are doing.
C21_ConcurrentSavesKept ==
  /\ \A i \in DOMAIN conc.puts :
       /\ InStore(conc.puts[i].key)
       /\ store[<<STORIES_NS, conc.puts[i].key>>] =
            [content |-> LastPut(conc.puts[i].key).content]
  /\ conc.calls # <<>> =>
       \A k \in DOMAIN store :
         \E i \in DOMAIN conc.puts : k = <<STORIES_NS, conc.puts[i].key>>
  /\ \A p \in DOMAIN conc.calls :
       conc.calls[p].pc = "putting" => ENABLED PutSettled(p, FALSE)

\* C21 witness: three overlapping calls have returned; the user side of u1
\* was saved by caller 2 and then by caller 1, and between the two the wife
\* side of u1 was saved by caller 3.
C21_Witness ==
  /\ conc.calls # <<>>
  /\ \A p \in DOMAIN conc.calls : conc.calls[p].pc = "returned"
  /\ Len(conc.puts) = 3
  /\ conc.puts[1] = [key |-> UserKey(<<"u1">>), content |-> <<"c2">>, by |-> 2]
  /\ conc.puts[2] = [key |-> WifeKey(<<"u1">>), content |-> <<>>, by |-> 3]
  /\ conc.puts[3] = [key |-> UserKey(<<"u1">>), content |-> <<"c1">>, by |-> 1]
  /\ store[<<STORIES_NS, UserKey(<<"u1">>)>>] = [content |-> <<"c1">>]

\* C22: over every interleaving of initialize and invoke calls on one
\* instance the agents are constructed at most once and never replaced.
C22_AgentsBuiltOnce ==
  conc.built <= 1

\* the persona a name of input.mode names, in either letter case
NamedPersona(name) ==
  CASE name \in {"USER", "user", "User"} -> MODES.USER
    [] name \in {"WIFE", "wife"}       -> MODES.WIFE
    [] name \in {"SOLOMON", "solomon"} -> MODES.SOLOMON

\* the persona's instruction template and tool set
PersonaTemplate(persona) ==
  CASE persona = MODES.USER    -> USER_SYSTEM_MESSAGE
    [] persona = MODES.WIFE    -> WIFE_SYSTEM_MESSAGE
    [] persona = MODES.SOLOMON -> SOLOMON_SYSTEM_MESSAGE

PersonaTools(persona) ==
  CASE persona = MODES.USER    -> {SAVE_USER_STORY}
    [] persona = MODES.WIFE    -> {SAVE_WIFE_STORY}
    [] persona = MODES.SOLOMON -> {GET_BOTH_STORIES}

\* C23: the agent that runs an API turn, with its instruction template and
\* its tool set, is the one of the persona input.mode names (USER, WIFE or
\* SOLOMON, in any letter case), whatever the current mode is; without
\* input.mode it is the one of the current mode.  The current mode is King
\* Solomon at first and no step but setMode changes it.
C23_PersonaByInputMode ==
  /\ currentMode = MODES.SOLOMON
  /\ [][ /\ (pc = "idle" /\ pc' = "running") =>
              LET name    == turn'.given.mode
                  persona == IF name = NoMode THEN currentMode
                             ELSE NamedPersona(name)
              IN  (name = NoMode \/ name \in {"USER", "user", "WIFE", "wife",
                                              "SOLOMON", "solomon"}) =>
                    /\ turn'.mode = persona
                    /\ agents'[turn'.mode].tools = PersonaTools(persona)
                    /\ SubSeq(instruction'[1].content, 1, 1) =
                         PersonaTemplate(persona)
         /\ (pc = "running" /\ turn'.calls = turn.calls + 1) =>
              lastTool'.name \in PersonaTools(turn.mode)
         /\ currentMode' # currentMode =>
              UNCHANGED <<pc, turn, turns, checkpoints, store, instruction>>
       ]_vars

\* C23 witness: while the current mode is the Advocate's, a turn asked for
\* with mode 'wife' runs the OpposingRolePlay's agent, which has called its
\* save tool.
C23_Witness ==
  /\ pc = "running"
  /\ currentMode = MODES.USER
  /\ turn.given.mode = "wife"
  /\ turn.mode = MODES.WIFE
  /\ lastTool.name = SAVE_WIFE_STORY

\* the sessions in which the persona's agent has run a turn
SessionsOf(persona) ==
  { m.msg.session : m \in { x \in Messages : x.msg.by = persona } }

\* what the combined read may show for one side
SideTexts == Stories \cup {NO_STORY}

\* C24: a story saved for user u in a turn of one session is returned by the
\* Arbiter's combined read for u in a turn of another session.  (Stated for
\* a read in session s1 of what the Advocate saved in the session named
\* "default", the store answering the read.)
C24_StoryReadAcrossSessions ==
  ( /\ lastTool.name = GET_BOTH_STORIES
    /\ ~lastTool.faulted
    /\ turn.given.sessionId = <<"s1">>
    /\ SessionsOf(MODES.USER) = { <<"default">> }
    /\ InStore(UserKey(turn.configurable.userId)) ) =>
    \E other \in SideTexts :
      lastTool.text =
        HEADER \o USER_LABEL
          \o store[<<STORIES_NS, UserKey(turn.configurable.userId)>>].content
          \o NL2 \o WIFE_LABEL \o other

\* C26: when a save tool returns its confirmation text the store holds the
\* given content under the tool's key; when the store rejects the put the
\* tool returns no confirmation text.
C26_ConfirmedAfterStored ==
  lastTool.name \in {SAVE_USER_STORY, SAVE_WIFE_STORY} =>
    /\ (lastTool.ok /\ lastTool.text \in {USER_CONFIRMATION, WIFE_CONFIRMATION})
         => /\ Len(lastTool.ops) = 1
            /\ lastTool.ops[1].op = "put"
            /\ InStore(lastTool.ops[1].key)
            /\ store[<<STORIES_NS, lastTool.ops[1].key>>] =
                 [content |-> lastTool.input]
    /\ lastTool.faulted =>
         /\ ~lastTool.ok
         /\ lastTool.text \notin {USER_CONFIRMATION, WIFE_CONFIRMATION}

\* C26 witness: the user-side save of c1 has returned its confirmation.
C26_Witness ==
  /\ lastTool.name = SAVE_USER_STORY
  /\ lastTool.ok
  /\ lastTool.text = USER_CONFIRMATION
  /\ lastTool.input = <<"c1">>
  /\ store[<<STORIES_NS, UserKey(<<"u1">>)>>] = [content |-> <<"c1">>]

\* the keys of the store before or after the step
KeysAround == (DOMAIN store) \cup (DOMAIN store')

\* the step left the record under the key as it was, or absent
Untouched(k) ==
  /\ k \in DOMAIN store <=> k \in DOMAIN store'
  /\ k \in DOMAIN store => store'[k] = store[k]

\* C27: a save-tool call for user u and one side changes the record under
\* that one key only; the combined read for u issues a get for the two keys
\* of u, and no other store operation, and changes no record.
C27_ToolTouchesOwnKeys ==
  [][ (pc = "running" /\ turn'.calls = turn.calls + 1) =>
        LET u == turn.configurable.userId
        IN  /\ lastTool'.name = SAVE_USER_STORY =>
                 /\ \A k \in KeysAround :
                      k # <<STORIES_NS, UserKey(u)>> => Untouched(k)
                 /\ lastTool'.ops = << [op |-> "put", key |-> UserKey(u)] >>
            /\ lastTool'.name = SAVE_WIFE_STORY =>
                 /\ \A k \in KeysAround :
                      k # <<STORIES_NS, WifeKey(u)>> => Untouched(k)
                 /\ lastTool'.ops = << [op |-> "put", key |-> WifeKey(u)] >>
            /\ lastTool'.name = GET_BOTH_STORIES =>
                 /\ store' = store
                 /\ lastTool'.ops = << [op |-> "get", key |-> UserKey(u)],
                                       [op |-> "get", key |-> WifeKey(u)] >>
    ]_vars

\* C27 witness: the user side of u1 was saved while the store held the wife
\* side of u1, which it still holds.
C27_Witness ==
  /\ lastTool.name = SAVE_USER_STORY
  /\ lastTool.ok
  /\ lastTool.ops[1].key = UserKey(<<"u1">>)
  /\ ~lastTool.prev[1].found
  /\ InStore(WifeKey(<<"u1">>))
  /\ store[<<STORIES_NS, WifeKey(<<"u1">>)>>].content = <<"c2">>

\* C28: the combined read shows the marker for a side only when no record
\* was ever written under that side's key of the user.  (Stated for the
\* turns that name their user and session and for the reads the store
\* answered.)
C28_MarkerOnlyWhenNeverWritten ==
  ( /\ lastTool.name = GET_BOTH_STORIES
    /\ ~lastTool.faulted
    /\ turn.given.userId # Undefined
    /\ turn.given.sessionId # Undefined ) =>
    /\ (\E other \in SideTexts :
          lastTool.text = HEADER \o USER_LABEL \o NO_STORY \o NL2
                            \o WIFE_LABEL \o other)
         => ~InStore(UserKey(turn.configurable.userId))
    /\ (\E other \in SideTexts :
          lastTool.text = HEADER \o USER_LABEL \o other \o NL2
                            \o WIFE_LABEL \o NO_STORY)
         => ~InStore(WifeKey(turn.configurable.userId))

\* the thread's history is as it was, or longer at its end
Continued(old, new) ==
  /\ Len(old) <= Len(new)
  /\ SubSeq(new, 1, Len(old)) = old

\* the history of the thread so far, none when the thread is new
HistoryOf(t) == IF t \in DOMAIN checkpoints THEN checkpoints[t] ELSE <<>>

\* C25: in one interactive run the userId and the sessionId never change,
\* and every turn of persona p runs on the thread p_sessionId: the turns of p
\* after a switch to another persona and back continue the thread p used
\* before, whose earlier messages are all still there.
C25_SameThreadAfterSwitch ==
  [][ /\ cli'.userId = cli.userId
      /\ cli'.sessionId = cli.sessionId
      /\ \A t \in DOMAIN checkpoints :
           /\ t \in DOMAIN checkpoints'
           /\ Continued(checkpoints[t], checkpoints'[t])
      /\ \A t \in DOMAIN checkpoints' :
           \A i \in DOMAIN checkpoints'[t] :
             t = checkpoints'[t][i].by \o <<"_">> \o cli'.sessionId
      /\ (pc = "chat" /\ pc' = "running") =>
           LET t == currentMode \o <<"_">> \o cli.sessionId
           IN  /\ turn'.mode = currentMode
               /\ turn'.configurable.thread_id = t
               /\ turn'.configurable.userId = cli.userId
               /\ turn'.configurable.sessionId = cli.sessionId
               /\ checkpoints'[t] =
                    Append(HistoryOf(t),
                           [role |-> "user", by |-> currentMode,
                            session |-> cli.sessionId])
               /\ Len(instruction') = Len(checkpoints'[t]) + 1
    ]_vars

\* C25 witness: the user chatted as the Advocate, then as the
\* OpposingRolePlay, and is chatting as the Advocate again: the third turn
\* of the run is in flight on the Advocate's thread, after the first turn's
\* two messages.
C25_Witness ==
  /\ pc = "running"
  /\ turns = 3
  /\ turn.mode = MODES.USER
  /\ turn.configurable.thread_id = MODES.USER \o <<"_">> \o cli.sessionId
  /\ (MODES.WIFE \o <<"_">> \o cli.sessionId) \in DOMAIN checkpoints
  /\ Len(checkpoints[MODES.WIFE \o <<"_">> \o cli.sessionId]) = 2
  /\ Len(checkpoints[turn.configurable.thread_id]) = 3
  /\ checkpoints[turn.configurable.thread_id][2].role = "ai"
  /\ Len(instruction) = 4

\* C29: in the interactive loop at most one engine turn is in flight: a
\* message or a menu choice is read only when no turn is in flight, a turn
\* ends only by returning or failing, and the message of a new turn is put
\* at the end of its thread and is the thread's last message while the turn
\* is in flight.
C29_OneTurnInFlight ==
  [][ LET reads == /\ cli'.lastInput # cli.lastInput \/ turns' # turns
                   /\ cli'.lastInput.prompt # "signal"
      IN  /\ reads => (turn = NoTurn /\ pc \in {"menu", "chat"})
          /\ turns' # turns =>
               /\ turns' = turns + 1
               /\ pc' = "running"
               /\ turn' # NoTurn
               /\ checkpoints'[turn'.configurable.thread_id] =
                    Append(HistoryOf(turn'.configurable.thread_id),
                           [role |-> "user", by |-> turn'.mode,
                            session |-> cli.sessionId])
          /\ (turn # NoTurn /\ turn' = NoTurn) =>
               /\ pc = "running"
               /\ result'.status \in {"ok", "error"}
          /\ (turn' # NoTurn /\ pc' # "done") =>
               /\ pc' = "running"
               /\ LET h == checkpoints'[turn'.configurable.thread_id]
                  IN  h[Len(h)].role = "user"
    ]_vars

\* C29 witness: the first turn on the Advocate's thread returned and the
\* second one, entered after it, failed; the loop is at its prompt again.
C29_Witness ==
  /\ pc = "chat"
  /\ turn = NoTurn
  /\ turns = 2
  /\ result.status = "error"
  /\ cli.lastInput = [prompt |-> "chat", answer |-> <<"hello">>]
  /\ (MODES.USER \o <<"_">> \o cli.sessionId) \in DOMAIN checkpoints
  /\ LET h == checkpoints[MODES.USER \o <<"_">> \o cli.sessionId]
     IN  /\ Len(h) = 3
         /\ h[1].role = "user"
         /\ h[2].role = "ai"
         /\ h[3].role = "user"

\* C30: while chatting, exit and menu in either letter case and an empty or
\* blank message start no engine turn and change neither the store nor any
\* thread's history; an empty or blank message leaves the machine chatting
\* as the same persona.
C30_CommandsStartNoTurn ==
  [][ LET in      == cli'.lastInput
          blank   == in.answer \in { <<"">>, <<"  ">> }
          command == in.answer \in { <<"exit">>, <<"EXIT">>,
                                     <<"menu">>, <<"Menu">> }
      IN  (pc = "chat" /\ in.prompt = "chat" /\ (blank \/ command)) =>
            /\ turns' = turns
            /\ turn' = NoTurn
            /\ pc' # "running"
            /\ store' = store
            /\ checkpoints' = checkpoints
            /\ blank => (pc' = "chat" /\ currentMode' = currentMode)
            /\ in.answer \in { <<"menu">>, <<"Menu">> } => pc' = "menu"
            /\ in.answer \in { <<"exit">>, <<"EXIT">> } => pc' = "done"
    ]_vars

\* C30 witness: after a turn that wrote the store, a blank message was
\* entered and the loop is at the chat prompt of the same persona.
C30_Witness ==
  /\ pc = "chat"
  /\ cli.lastInput = [prompt |-> "chat", answer |-> <<"  ">>]
  /\ turns >= 1
  /\ DOMAIN store # {}
  /\ DOMAIN checkpoints # {}

\* C31: every engine turn the interactive loop starts runs the agent of the
\* persona chosen last in the menu, on that persona's thread key and with
\* the run's userId and sessionId; no turn is started before a persona was
\* chosen.
C31_TurnTargetsChosenPersona ==
  [][ turns' # turns =>
        /\ cli.chosen \in ModeValues
        /\ cli'.chosen = cli.chosen
        /\ turn'.mode = cli.chosen
        /\ turn'.configurable =
             [ thread_id |-> cli.chosen \o <<"_">> \o cli.sessionId,
               userId    |-> CLI_USER_ID,
               sessionId |-> cli.sessionId ]
        /\ cli.sessionId \in Uuids
        /\ SubSeq(instruction'[1].content, 1, 1) = PersonaTemplate(cli.chosen)
        /\ agents[turn'.mode].tools = PersonaTools(cli.chosen)
    ]_vars

\* C31 witness: the Advocate was chosen first and King Solomon after a turn;
\* a turn of King Solomon is in flight and has read the stories.
C31_Witness ==
  /\ pc = "running"
  /\ cli.chosen = MODES.SOLOMON
  /\ turn.mode = MODES.SOLOMON
  /\ turns = 2
  /\ (MODES.USER \o <<"_">> \o cli.sessionId) \in DOMAIN checkpoints
  /\ lastTool.name = GET_BOTH_STORIES

\* C32: when an engine turn of the interactive loop fails, the machine stays
\* in Chatting(p) with the same persona, userId and sessionId, at the chat
\* prompt, and the message entered next starts a turn as any message does.
C32_FailedTurnKeepsChatting ==
  /\ [] ( (pc = "chat" /\ result.status = "error" /\ turns < MaxChatTurns)
            => ENABLED Chat("hello") )
  /\ [][ (pc = "running" /\ result'.status = "error") =>
           /\ pc' = "chat"
           /\ UiState(pc') = "Chatting"
           /\ currentMode' = currentMode
           /\ cli' = cli
           /\ cli.isRunning
           /\ ~cli.exitRequested
           /\ store' = store
           /\ checkpoints' = checkpoints
       ]_vars

\* C32 witness: the first turn as the Advocate failed and the message
\* entered after it has started the second turn on the same thread.
C32_Witness ==
  /\ pc = "running"
  /\ turns = 2
  /\ turn.mode = MODES.USER
  /\ cli.lastInput = [prompt |-> "chat", answer |-> <<"hello">>]
  /\ LET h == checkpoints[turn.configurable.thread_id]
     IN  /\ Len(h) = 2
         /\ h[1].role = "user"
         /\ h[2].role = "user"
  /\ DOMAIN checkpoints = {turn.configurable.thread_id}

\* arguments a caller may pass to setMode
SetModeArgs ==
  { "USER", "user", "User", "WIFE", "wife", "SOLOMON", "solomon",
    "unknown", "" }

PersonaNames == { "USER", "user", "User", "WIFE", "wife", "SOLOMON", "solomon" }

\* C33: on an API instance the current mode is always one of the three
\* persona identifiers; setMode(m) returns true and makes the persona m
\* names the current mode when m names one, in any letter case, and returns
\* false and leaves the current mode otherwise; no step of invoke changes
\* the current mode.
C33_CurrentModeIsPersona ==
  /\ [] ( /\ currentMode \in ModeValues
          /\ \A m \in SetModeArgs :
               /\ SetModeResult(m) = (m \in PersonaNames)
               /\ SetModeNext(currentMode, m) =
                    IF m \in PersonaNames THEN NamedPersona(m)
                    ELSE currentMode )
  /\ [][ currentMode' # currentMode =>
           /\ pc' = pc
           /\ turn' = turn
           /\ turns' = turns
           /\ \E m \in ModeInputs :
                /\ SetModeResult(m)
                /\ currentMode' = SetModeNext(currentMode, m)
       ]_vars

\* C33 witness: setMode('wife') made the OpposingRolePlay the current mode,
\* and a turn asked for with mode 'USER' is running while it still is.
C33_Witness ==
  /\ currentMode = MODES.WIFE
  /\ pc = "running"
  /\ turn.given.mode = "USER"
  /\ turn.mode = MODES.USER

\* C34: the combined read of a turn with userId u returns, for each side,
\* the marker or a content that a save tool wrote in a turn with the same
\* userId u; this holds also for a userId that ends in _user or _wife and
\* for a turn that supplies no userId.
C34_UsersNeverMix ==
  lastTool.name = GET_BOTH_STORIES =>
    \E a, b \in {StoryFor(turn.given.userId), NO_STORY} :
      lastTool.text = HEADER \o USER_LABEL \o a \o NL2 \o WIFE_LABEL \o b

\* the session identifiers a turn's thread key, trailer and config may show
SessionsShown == { DEFAULT_THREAD_SESSION, DEFAULT_SESSION, <<"s1">> }

\* C35: in an API turn whose caller supplies no thread_id, the session
\* identifier at the end of the turn's thread key is the sessionId that the
\* trailer of the instruction names and that the config handed to the tools
\* holds, also when the caller supplied no sessionId.
C35_ThreadKeySessionIsTurnSession ==
  (pc = "running" /\ turn.given.thread_id = Undefined) =>
    \E s \in SessionsShown :
      /\ turn.configurable.sessionId = s
      /\ \E q \in ModeValues, u \in {DEFAULT_USER, <<"u1">>} :
           instruction[1].content = SystemMessage(q) \o SessionInfo(q, u, s)
      /\ \E p \in ModeValues :
           turn.configurable.thread_id = p \o <<"_">> \o s

\* what the claim has the read show for a get: the content the key held
\* when the get was answered, the marker when the key was absent then
HeldThen(read) ==
  IF read.item.found THEN read.item.value.content ELSE NO_STORY

\* C36: when the combined read for user u runs among overlapping saves for
\* u, it gets the user side before the opposing side, each side of its text
\* is the content the side's key held when that side's get was answered, or
\* the marker if the key was absent then, and a content it shows is one a
\* save wrote under that key.  (Stated for the gets the store answered.)
C36_ReadShowsWhatEachGetFound ==
  \A i, j \in DOMAIN conc.reads :
    ( /\ conc.reads[i].by = conc.reads[j].by
      /\ conc.reads[i].side = "user"
      /\ conc.reads[j].side = "wife"
      /\ ~conc.reads[i].faulted
      /\ ~conc.reads[j].faulted ) =>
      /\ i < j
      /\ conc.reads[i].key = UserKey(<<"u1">>)
      /\ conc.reads[j].key = WifeKey(<<"u1">>)
      /\ \A k \in {i, j} :
           conc.reads[k].item.found =>
             \E w \in DOMAIN conc.puts :
               /\ conc.puts[w].key = conc.reads[k].key
               /\ conc.puts[w].content = conc.reads[k].item.value.content
      /\ conc.reads[j].text =
           HEADER \o USER_LABEL \o HeldThen(conc.reads[i]) \o NL2
                  \o WIFE_LABEL \o HeldThen(conc.reads[j])

\* C18: the messages given to the model are one system message followed by
\* every message of the turn's thread, in order and unchanged; the system
\* message is the running persona's template followed by the trailer naming
\* that persona, the turn's userId and the turn's sessionId.
C18_InstructionComposed ==
  pc = "running" =>
    LET history == checkpoints[turn.configurable.thread_id]
    IN  /\ Len(instruction) = Len(history) + 1
        /\ instruction[1].role = "system"
        /\ instruction[1].content =
             ( CASE turn.mode = MODES.USER    -> USER_SYSTEM_MESSAGE
                 [] turn.mode = MODES.WIFE    -> WIFE_SYSTEM_MESSAGE
                 [] turn.mode = MODES.SOLOMON -> SOLOMON_SYSTEM_MESSAGE )
             \o <<"\n\nSession Info: You are in ">> \o turn.mode
             \o <<" mode for user ">> \o turn.configurable.userId
             \o <<" in session ">> \o turn.configurable.sessionId \o <<".">>
        /\ \A i \in DOMAIN history :
             /\ instruction[i + 1] = history[i]
             /\ instruction[i + 1].role # "system"

\* C18 witness: a turn of u1 in s1 runs on a thread that already held an
\* earlier turn's messages.
C18_Witness ==
  /\ pc = "running"
  /\ turn.given.userId = <<"u1">>
  /\ turn.given.sessionId = <<"s1">>
  /\ Len(instruction) >= 4
  /\ instruction[2].role = "user"
  /\ instruction[3].role = "ai"

\* C19: the store changes, and store operations are issued, only in a tool
\* call of a running turn: invoke, setMode, initialize, the prompt function
\* and the end of a turn leave the store as it was.
C19_StoreChangesOnlyInTools ==
  [][ (store' # store \/ (lastTool' # lastTool /\ lastTool'.ops # <<>>)) =>
        /\ pc = "running"
        /\ pc' = "running"
        /\ turn'.calls = turn.calls + 1
        /\ lastTool'.name \in agents[turn.mode].tools ]_vars

\* C19 witness: invoke started a second turn and composed its instruction
\* while the store held a record; no tool has been called in the turn.
C19_Witness ==
  /\ pc = "running"
  /\ turns = 2
  /\ turn.calls = 0
  /\ instruction # <<>>
  /\ InStore(UserKey(<<"u1">>))

\* C20: a key that has been written stays in the store: no step removes a
\* key, and a turn that fails after its tool call wrote keeps the write.
C20_WritesAreNotUndone ==
  [][ \A k \in DOMAIN store : k \in DOMAIN store' ]_vars

\* C20 witness: the first turn wrote the user side of u1 and then failed.
C20_Witness ==
  /\ pc = "idle"
  /\ turns = 1
  /\ result.status = "error"
  /\ InStore(UserKey(<<"u1">>))

====
